---- MODULE Spec2Model ----
(***************************************************************************)
(* Model of src/librustc/dep_graph/prev.rs: PreviousDepGraph, the frozen   *)
(* snapshot of the previous session's dependency graph.                    *)
(*                                                                         *)
(* IndexVec<DepNodeIndex, T> and Vec<T> are modelled as sequences: the     *)
(* zero-based key k of the source is position k + 1 of the sequence.       *)
(* FxHashMap<DepNode, DepNodeIndex> is a function whose DOMAIN is the set  *)
(* of keys present in the map.  Option<T> is <<"None">> or <<"Some", v>>.  *)
(***************************************************************************)
EXTENDS Integers, Sequences, FiniteSets, TLC

\* ---------------------------------------------------------------- bounds
\* Greatest number of records in graph.nodes.
MaxNodes == 2
\* Greatest total number of edges over all records of graph.nodes.
MaxEdges == 2

\* ------------------------------------------------------- opaque payloads
\* DepNode values (identities), in the order inputs first use them; only
\* equality matters.
DepNodeOrder == <<"A", "B", "C">>
DepNodes == {DepNodeOrder[i] : i \in DOMAIN DepNodeOrder}
\* Fingerprint values, in the order inputs first use them; only equality
\* matters.
FingerprintOrder == <<"f1", "f2">>
Fingerprints == {FingerprintOrder[i] : i \in DOMAIN FingerprintOrder}
\* DepNodeState values, in the order inputs first use them; only storage and
\* retrieval matter.
DepNodeStateOrder == <<"s1", "s2">>
DepNodeStates == {DepNodeStateOrder[i] : i \in DOMAIN DepNodeStateOrder}
\* DepNodeIndex values an edge list of the input may hold.  MaxNodes is a
\* target no input of at most MaxNodes records has a record for.
DepNodeIndices == 0..MaxNodes

VARIABLES
    graph,              \* the argument of new: [nodes, state]
    pc,                 \* "start" before new has run, "built" once it has
                        \* returned, "panicked" if it panicked
    index,              \* FxHashMap<DepNode, DepNodeIndex>
    nodes,              \* IndexVec<DepNodeIndex, DepNode>
    fingerprints,       \* IndexVec<DepNodeIndex, Fingerprint>
    edge_list_indices,  \* IndexVec<DepNodeIndex, (u32, u32)>
    edge_list_data,     \* Vec<DepNodeIndex>
    state,              \* IndexVec<DepNodeIndex, DepNodeState>
    ret                 \* the last query of a reader: [op, arg, val]

snapshot == <<index, nodes, fingerprints, edge_list_indices, edge_list_data, state>>
vars == <<graph, pc, index, nodes, fingerprints, edge_list_indices, edge_list_data, state, ret>>

\* ---------------------------------------------------------------- helpers
None == <<"None">>
Some(v) == <<"Some", v>>
Ok(v) == <<"Ok", v>>
\* An index out of bounds, or a key absent from the map under Index.
Panic == <<"Panic">>
NoRet == [op |-> "none", arg |-> <<>>, val |-> <<>>]

\* `n as u32` of a usize n: n modulo 2^32.  TLC's integers end below 2^31,
\* so every length the model reaches is one the cast keeps; the source
\* asserts edge_list_data.len() <= u32::MAX in debug builds.
AsU32(n) == n

\* All sequences over S of length at most n.
RECURSIVE SeqsUpTo(_, _)
SeqsUpTo(S, n) ==
    IF n = 0 THEN {<<>>}
    ELSE LET shorter == SeqsUpTo(S, n - 1)
         IN  shorter \cup {Append(s, x) : s \in {t \in shorter : Len(t) = n - 1}, x \in S}

\* All sequences over S of length exactly n.
SeqsOfLen(S, n) == {s \in SeqsUpTo(S, n) : Len(s) = n}

\* The serialized records with exactly l edges.
SerializedNodes(l) ==
    [node : DepNodes, fingerprint : Fingerprints, edges : SeqsOfLen(DepNodeIndices, l)]

\* The payloads are opaque, so renaming them maps runs to runs: inputs are
\* taken up to renaming.  A value may follow the values seen if it is one of
\* them or the first value of the order that is not.
MayFollow(order, seen, v) ==
    \E i \in DOMAIN order :
        /\ order[i] = v
        /\ \A j \in 1..(i - 1) : order[j] \in seen

\* All sequences of exactly n records holding at most e edges together.
RECURSIVE NodeSeqs(_, _)
NodeSeqs(n, e) ==
    IF n = 0 THEN {<<>>}
    ELSE UNION {
        LET prefixes == NodeSeqs(n - 1, e - l)
            last     == SerializedNodes(l)
        IN  {Append(pr[1], pr[2]) :
                pr \in {x \in prefixes \X last :
                    /\ MayFollow(DepNodeOrder,
                                 {x[1][i].node : i \in DOMAIN x[1]}, x[2].node)
                    /\ MayFollow(FingerprintOrder,
                                 {x[1][i].fingerprint : i \in DOMAIN x[1]},
                                 x[2].fingerprint)}}
        : l \in 0..e}

\* All sequences of exactly n DepNodeStates.
RECURSIVE StateSeqs(_)
StateSeqs(n) ==
    IF n = 0 THEN {<<>>}
    ELSE {Append(pr[1], pr[2]) :
            pr \in {x \in StateSeqs(n - 1) \X DepNodeStates :
                MayFollow(DepNodeStateOrder, {x[1][i] : i \in DOMAIN x[1]}, x[2])}}

\* The inputs of new: graph.nodes and graph.state, which the serialized graph
\* keeps under the same keys (one state per record).
SerializedDepGraphs ==
    UNION {[nodes : NodeSeqs(n, MaxEdges), state : StateSeqs(n)] : n \in 0..MaxNodes}

\* ------------------------------------------------------------ constructor
\* HashMapInsert as an insert that keeps the entry a key already has.
HashMapInsertKeepFirst(m, k, v) ==
    [x \in (DOMAIN m) \cup {k} |-> IF x \in DOMAIN m THEN m[x] ELSE v]

\* FxHashMap::insert: a later insert of a key replaces the earlier entry.
HashMapInsert(m, k, v) ==
    [x \in (DOMAIN m) \cup {k} |-> IF x = k THEN v ELSE m[x]]

\* graph.nodes.iter_enumerated().map(|(idx, d)| (d.node, idx)).collect():
\* the map after the first n records have been inserted in order.
RECURSIVE CollectIndex(_, _)
CollectIndex(ns, n) ==
    IF n = 0 THEN << >>
    ELSE HashMapInsert(CollectIndex(ns, n - 1), ns[n].node, n - 1)

\* CollectFingerprints collecting the fingerprints in reverse order.
CollectFingerprintsReversed(ns) == [i \in 1..Len(ns) |-> ns[Len(ns) + 1 - i].fingerprint]

\* graph.nodes.iter().map(|d| d.fingerprint).collect()
CollectFingerprints(ns) == [i \in 1..Len(ns) |-> ns[i].fingerprint]

\* graph.nodes.iter().map(|d| d.node).collect()
CollectNodes(ns) == [i \in 1..Len(ns) |-> ns[i].node]

\* graph.nodes.iter().map(|d| d.edges.len()).sum()
RECURSIVE SumEdgeLens(_, _)
SumEdgeLens(ns, n) ==
    IF n = 0 THEN 0 ELSE SumEdgeLens(ns, n - 1) + Len(ns[n].edges)

total_edge_count(ns) == SumEdgeLens(ns, Len(ns))

\* EdgeLoopBody with a range start that does not follow the cursor.
EdgeLoopBodyStartZero(acc, current_dep_node_index, edges) ==
    LET data == acc.data \o edges
    IN  [indices |-> Append(acc.indices, <<0, AsU32(Len(data))>>),
         data    |-> data,
         ok      |-> acc.ok /\ current_dep_node_index = Len(acc.indices)]

\* EdgeLoopBody reading the range end before the edges are appended.
EdgeLoopBodyEndBeforeExtend(acc, current_dep_node_index, edges) ==
    LET start == AsU32(Len(acc.data))
    IN  [indices |-> Append(acc.indices, <<start, start>>),
         data    |-> acc.data \o edges,
         ok      |-> acc.ok /\ current_dep_node_index = Len(acc.indices)]

\* One iteration of the loop over graph.nodes.  acc is the loop's state:
\* indices is edge_list_indices, data is edge_list_data, and ok tells that
\* no debug_assert_eq! of the loop has failed so far.
EdgeLoopBody(acc, current_dep_node_index, edges) ==
    LET start == AsU32(Len(acc.data))
        data  == acc.data \o edges
        end   == AsU32(Len(data))
    IN  [indices |-> Append(acc.indices, <<start, end>>),
         data    |-> data,
         ok      |-> acc.ok /\ current_dep_node_index = Len(acc.indices)]

\* The loop over graph.nodes after its first n iterations.
RECURSIVE EdgeLoop(_, _)
EdgeLoop(ns, n) ==
    IF n = 0 THEN [indices |-> <<>>, data |-> <<>>, ok |-> TRUE]
    ELSE EdgeLoopBody(EdgeLoop(ns, n - 1), n - 1, ns[n].edges)

\* graph.state.convert_index_type(): the same values under the same keys.
ConvertIndexType(st) == [i \in 1..Len(st) |-> st[i]]

\* PreviousDepGraph::new(graph).  A debug_assert that fails panics (in a
\* build with debug assertions) and no snapshot is returned.  The assertion
\* edge_list_data.len() <= u32::MAX holds of every length the model reaches
\* (see AsU32).
New ==
    /\ pc = "start"
    /\ LET loop == EdgeLoop(graph.nodes, Len(graph.nodes))
           asserts == loop.ok /\ Len(loop.data) = total_edge_count(graph.nodes)
       IN  IF asserts
           THEN /\ index' = CollectIndex(graph.nodes, Len(graph.nodes))
                /\ fingerprints' = CollectFingerprints(graph.nodes)
                /\ nodes' = CollectNodes(graph.nodes)
                /\ edge_list_indices' = loop.indices
                /\ edge_list_data' = loop.data
                /\ state' = ConvertIndexType(graph.state)
                /\ pc' = "built"
           ELSE /\ pc' = "panicked"
                /\ UNCHANGED snapshot
    /\ UNCHANGED <<graph, ret>>

\* ---------------------------------------------------------------- queries
InBounds(v, k) == k + 1 \in 1..Len(v)

\* self.edge_list_data[targets.0 as usize..targets.1 as usize]
edge_targets_from(k) ==
    LET targets == edge_list_indices[k + 1]
    IN  SubSeq(edge_list_data, targets[1] + 1, targets[2])

\* self.nodes[dep_node_index]
index_to_node(k) == nodes[k + 1]

\* self.index[dep_node]
node_to_index(n) == index[n]

\* self.index.get(dep_node).cloned()
node_to_index_opt(n) == IF n \in DOMAIN index THEN Some(index[n]) ELSE None

\* fingerprint_of reading the fingerprint under the key counted from the end.
fingerprint_of_from_end(n) ==
    IF n \in DOMAIN index THEN Some(fingerprints[Len(fingerprints) - index[n]]) ELSE None

\* self.index.get(dep_node).map(|&node_index| self.fingerprints[node_index])
fingerprint_of(n) ==
    IF n \in DOMAIN index THEN Some(fingerprints[index[n] + 1]) ELSE None

\* self.fingerprints[dep_node_index]
fingerprint_by_index(k) == fingerprints[k + 1]

\* self.index.len()
node_count == Cardinality(DOMAIN index)

\* ---------------------------------------------------- a reader's calls
\* Each call is made on the built snapshot by a reader with any argument of
\* its type; ret records the call and what it returned, until the reader has
\* used the value and calls again.  The methods take &self: a call writes
\* nothing but its own return value.
\* a[lo..hi] panics unless lo <= hi <= a.len()
SliceInBounds(a, lo, hi) == lo <= hi /\ hi <= Len(a)

CallEdgeTargetsFrom ==
    \E k \in DepNodeIndices :
        /\ pc = "built" /\ ret = NoRet
        /\ ret' = [op |-> "edge_targets_from", arg |-> k,
                   val |-> IF /\ InBounds(edge_list_indices, k)
                     /\ SliceInBounds(edge_list_data, edge_list_indices[k + 1][1],
                                      edge_list_indices[k + 1][2])
                  THEN Ok(edge_targets_from(k)) ELSE Panic]
        /\ UNCHANGED <<graph, pc, snapshot>>

CallIndexToNode ==
    \E k \in DepNodeIndices :
        /\ pc = "built" /\ ret = NoRet
        /\ ret' = [op |-> "index_to_node", arg |-> k,
                   val |-> IF InBounds(nodes, k) THEN Ok(index_to_node(k)) ELSE Panic]
        /\ UNCHANGED <<graph, pc, snapshot>>

CallNodeToIndex ==
    \E n \in DepNodes :
        /\ pc = "built" /\ ret = NoRet
        /\ ret' = [op |-> "node_to_index", arg |-> n,
                   val |-> IF n \in DOMAIN index THEN Ok(node_to_index(n)) ELSE Panic]
        /\ UNCHANGED <<graph, pc, snapshot>>

\* CallNodeToIndexOpt through the map's entry API, which inserts a missing key.
CallNodeToIndexOptInserting ==
    \E n \in DepNodes :
        /\ pc = "built" /\ ret = NoRet
        /\ index' = IF n \in DOMAIN index THEN index ELSE HashMapInsertKeepFirst(index, n, 0)
        /\ ret' = [op |-> "node_to_index_opt", arg |-> n,
                   val |-> Ok(node_to_index_opt(n))]
        /\ UNCHANGED <<graph, pc, nodes, fingerprints, edge_list_indices,
                       edge_list_data, state>>

CallNodeToIndexOpt ==
    \E n \in DepNodes :
        /\ pc = "built" /\ ret = NoRet
        /\ ret' = [op |-> "node_to_index_opt", arg |-> n,
                   val |-> Ok(node_to_index_opt(n))]
        /\ UNCHANGED <<graph, pc, snapshot>>

CallFingerprintOf ==
    \E n \in DepNodes :
        /\ pc = "built" /\ ret = NoRet
        /\ ret' = [op |-> "fingerprint_of", arg |-> n,
                   val |-> IF n \in DOMAIN index /\ ~InBounds(fingerprints, index[n])
                  THEN Panic ELSE Ok(fingerprint_of(n))]
        /\ UNCHANGED <<graph, pc, snapshot>>

CallFingerprintByIndex ==
    \E k \in DepNodeIndices :
        /\ pc = "built" /\ ret = NoRet
        /\ ret' = [op |-> "fingerprint_by_index", arg |-> k,
                   val |-> IF InBounds(fingerprints, k)
                  THEN Ok(fingerprint_by_index(k)) ELSE Panic]
        /\ UNCHANGED <<graph, pc, snapshot>>

CallNodeCount ==
    /\ pc = "built" /\ ret = NoRet
    /\ ret' = [op |-> "node_count", arg |-> <<>>,
               val |-> Ok(node_count)]
    /\ UNCHANGED <<graph, pc, snapshot>>

\* The reader is done with the returned value (a copy, or a borrow of the
\* snapshot that ends here) and is free to call again.
Return ==
    /\ pc = "built" /\ ret # NoRet
    /\ ret' = NoRet
    /\ UNCHANGED <<graph, pc, snapshot>>

\* ---------------------------------------------------------- specification
Init ==
    /\ graph \in SerializedDepGraphs
    /\ pc = "start"
    /\ index = << >>
    /\ nodes = <<>>
    /\ fingerprints = <<>>
    /\ edge_list_indices = <<>>
    /\ edge_list_data = <<>>
    /\ state = <<>>
    /\ ret = NoRet

Next ==
    \/ New
    \/ CallEdgeTargetsFrom
    \/ CallIndexToNode
    \/ CallNodeToIndex
    \/ CallNodeToIndexOpt
    \/ CallFingerprintOf
    \/ CallFingerprintByIndex
    \/ CallNodeCount
    \/ Return

Spec == Init /\ [][Next]_vars

\* ------------------------------------------------------------- the claims
\* The zero-based keys of the input records.
Keys == 0..(Len(graph.nodes) - 1)
\* The record the input holds at key k.
Record(k) == graph.nodes[k + 1]
\* The identities of the input.
InputNodes == {graph.nodes[i].node : i \in DOMAIN graph.nodes}
\* Two records of the input carry the same identity.
HasDuplicate ==
    \E i, j \in DOMAIN graph.nodes : i # j /\ graph.nodes[i].node = graph.nodes[j].node
\* Some edge list of the input holds a target that is no key of the input.
HasForeignTarget ==
    \E i \in DOMAIN graph.nodes :
        \E e \in DOMAIN graph.nodes[i].edges : graph.nodes[i].edges[e] \notin Keys
\* The greatest key whose record carries the identity n.
LastKeyOf(n) ==
    CHOOSE k \in Keys : Record(k).node = n /\ \A j \in Keys : Record(j).node = n => j <= k

\* C1: after new, the identity/key mapping round-trips in both directions:
\* index_to_node(node_to_index(I)) = I for every identity I of the input, and
\* node_to_index(index_to_node(k)) = k for every key k of the input.
C1_RoundTrip ==
    pc = "built" =>
        /\ \A n \in InputNodes : index_to_node(node_to_index(n)) = n
        /\ \A k \in Keys : node_to_index(index_to_node(k)) = k

\* C2: new never yields a snapshot from an input in which two records carry
\* the same identity.
C2_DuplicateRejected ==
    pc = "built" => ~HasDuplicate

\* C3: every target of edge_targets_from(k), for every key k below
\* node_count(), is below node_count(); a target outside the keys of the
\* input is never exposed.
C3_EdgeContainment ==
    pc = "built" =>
        \A k \in 0..(node_count - 1) :
            \A e \in DOMAIN edge_targets_from(k) :
                edge_targets_from(k)[e] \in 0..(node_count - 1)

\* C4: edge_targets_from(k) is exactly the edge list supplied for record k,
\* in length, targets and order, for every key k of the input, and that is
\* what a call returns.
C4_EdgeOrderPreserved ==
    pc = "built" =>
        /\ \A k \in Keys : edge_targets_from(k) = Record(k).edges
        /\ (ret.op = "edge_targets_from" /\ ret.arg \in Keys)
               => ret.val = Ok(Record(ret.arg).edges)

C4_Witness ==
    /\ pc = "built"
    /\ Len(graph.nodes) = 2
    /\ Record(0).edges = <<1>>
    /\ Record(1).edges = <<0>>
    /\ ret = [op |-> "edge_targets_from", arg |-> 1, val |-> Ok(<<0>>)]

\* C5: after new, nodes, fingerprints, edge_list_indices, state and the map
\* index all have the same length, and that length is node_count().
C5_LengthAlignment ==
    pc = "built" =>
        /\ Len(nodes) = node_count
        /\ Len(fingerprints) = node_count
        /\ Len(edge_list_indices) = node_count
        /\ Len(state) = node_count
        /\ Cardinality(DOMAIN index) = node_count

\* C6: fingerprint_by_index(k) is the fingerprint of record k and state[k]
\* the validity state supplied for position k, for every key k of the input,
\* in every state after construction (whatever calls have been made).
C6_FingerprintStateFidelity ==
    pc = "built" =>
        /\ Len(fingerprints) = Len(graph.nodes)
        /\ Len(state) = Len(graph.state)
        /\ \A k \in Keys :
               /\ fingerprint_by_index(k) = Record(k).fingerprint
               /\ state[k + 1] = graph.state[k + 1]
        /\ (ret.op = "fingerprint_by_index" /\ ret.arg \in Keys)
               => ret.val = Ok(Record(ret.arg).fingerprint)

C6_Witness ==
    /\ pc = "built"
    /\ Len(graph.nodes) = 2
    /\ Record(1).fingerprint = "f2"
    /\ graph.state[2] = "s2"
    /\ state[2] = "s2"
    /\ ret = [op |-> "fingerprint_by_index", arg |-> 1, val |-> Ok("f2")]

\* C7: for an identity that is not in the input, node_to_index_opt and
\* fingerprint_of return None; for an identity of the input,
\* node_to_index_opt returns Some(k) and fingerprint_of returns
\* Some(fingerprint_by_index(k)).
C7_UnknownIdentity ==
    pc = "built" =>
        \A n \in DepNodes :
            IF n \notin InputNodes
            THEN node_to_index_opt(n) = None /\ fingerprint_of(n) = None
            ELSE /\ node_to_index_opt(n)[1] = "Some"
                 /\ fingerprint_of(n) = Some(fingerprint_by_index(node_to_index_opt(n)[2]))

C7_Witness ==
    /\ pc = "built"
    /\ InputNodes = {"A", "B"}
    /\ Record(0).fingerprint # Record(1).fingerprint
    /\ ret = [op |-> "fingerprint_of", arg |-> "C", val |-> Ok(None)]

C9_GapFreeRanges ==
    pc = "built" =>
        /\ Len(edge_list_indices) = Len(graph.nodes)
        /\ Keys # {} => edge_list_indices[1][1] = 0
        /\ \A k \in Keys :
               LET start == edge_list_indices[k + 1][1]
                   end   == edge_list_indices[k + 1][2]
               IN  /\ 0 <= start /\ start <= end /\ end <= Len(edge_list_data)
                   /\ end - start = Len(Record(k).edges)
                   /\ (k + 1) \in Keys => edge_list_indices[k + 2][1] = end
        /\ Len(edge_list_data) = total_edge_count(graph.nodes)

C9_Witness ==
    /\ pc = "built"
    /\ edge_list_indices = <<(<<0, 1>>), (<<1, 2>>)>>
    /\ Len(edge_list_data) = 2

\* C10: new returns a snapshot for every input (it never panics, and nothing
\* but its having run already keeps it from running); node_to_index(I) is the
\* greatest key whose record carries I; node_to_index gives every record its
\* own key exactly when no two records carry the same identity; and
\* node_count() is the number of distinct identities of the input.
C10_LastDuplicateWins ==
    /\ pc # "panicked"
    /\ pc = "built" =>
           /\ DOMAIN index = InputNodes
           /\ \A n \in InputNodes : node_to_index(n) = LastKeyOf(n)
           /\ (\A k \in Keys : node_to_index(Record(k).node) = k) <=> ~HasDuplicate
           /\ node_count = Cardinality(InputNodes)
           /\ (ret.op = "node_to_index" /\ ret.arg \in InputNodes)
                  => ret.val = Ok(LastKeyOf(ret.arg))

C10_Witness ==
    /\ pc = "built"
    /\ Len(graph.nodes) = 2
    /\ Record(0).node = "A"
    /\ Record(1).node = "A"
    /\ node_count = 1
    /\ ret = [op |-> "node_to_index", arg |-> "A", val |-> Ok(1)]
====
